---- MODULE Spec2Model ----
(***************************************************************************)
(* Model of the decorator-driven validation registry of src/app.ts:       *)
(* the registeredValidators table, the Required and PositiveNumber         *)
(* property decorators, validate(), the Course class and the form's        *)
(* submit listener.                                                        *)
(***************************************************************************)
EXTENDS Integers, Sequences, FiniteSets, TLC

VARIABLES registeredValidators, regLog, call, console, alerts

vars == <<registeredValidators, regLog, call, console, alerts>>

(* ------------------------------ bounds --------------------------------- *)

\* number of decorator applications explored
MaxRegs == 2

\* number of form submissions explored
MaxSubmits == 2

(* --------------------------- JavaScript values -------------------------- *)

Str(s) == [kind |-> "string", chars |-> s, n |-> 0, b |-> FALSE]

Num(i) == [kind |-> "number", chars |-> <<>>, n |-> i, b |-> FALSE]

Bool(x) == [kind |-> "boolean", chars |-> <<>>, n |-> 0, b |-> x]

NaN == [kind |-> "NaN", chars |-> <<>>, n |-> 0, b |-> FALSE]

Undefined == [kind |-> "undefined", chars |-> <<>>, n |-> 0, b |-> FALSE]

Null == [kind |-> "null", chars |-> <<>>, n |-> 0, b |-> FALSE]

DigitValue ==
  [c \in {"0", "1", "2", "3", "4", "5", "6", "7", "8", "9"} |->
     CASE c = "0" -> 0 [] c = "1" -> 1 [] c = "2" -> 2 [] c = "3" -> 3
       [] c = "4" -> 4 [] c = "5" -> 5 [] c = "6" -> 6 [] c = "7" -> 7
       [] c = "8" -> 8 [] c = "9" -> 9]

AllDigits(s) == s /= <<>> /\ \A i \in 1..Len(s) : s[i] \in DOMAIN DigitValue

RECURSIVE DigitsToNat(_)
DigitsToNat(s) ==
  IF s = <<>> THEN 0
  ELSE DigitsToNat(SubSeq(s, 1, Len(s) - 1)) * 10 + DigitValue[s[Len(s)]]

\* String-to-number conversion for strings made of letters, digits and a
\* sign: the empty string is 0, an optionally signed run of digits is its
\* value, anything else is NaN.
StringToNumber(s) ==
  IF s = <<>> THEN Num(0)
  ELSE IF AllDigits(s) THEN Num(DigitsToNat(s))
  ELSE IF s[1] = "-" /\ AllDigits(Tail(s)) THEN Num(0 - DigitsToNat(Tail(s)))
  ELSE IF s[1] = "+" /\ AllDigits(Tail(s)) THEN Num(DigitsToNat(Tail(s)))
  ELSE NaN

\* the unary plus of `+priceEl.value` and the operand conversion of `> 0`
ToNumber(v) ==
  CASE v.kind = "number" -> v
    [] v.kind = "NaN" -> NaN
    [] v.kind = "string" -> StringToNumber(v.chars)
    [] v.kind = "boolean" -> IF v.b THEN Num(1) ELSE Num(0)
    [] v.kind = "null" -> Num(0)
    [] v.kind = "undefined" -> NaN

\* the double negation `!!obj[prop]`
ToBoolean(v) ==
  CASE v.kind = "number" -> v.n /= 0
    [] v.kind = "NaN" -> FALSE
    [] v.kind = "string" -> v.chars /= <<>>
    [] v.kind = "boolean" -> v.b
    [] v.kind = "null" -> FALSE
    [] v.kind = "undefined" -> FALSE

\* `obj[prop] > 0`: a comparison with NaN is false
GreaterThanZero(v) ==
  LET x == ToNumber(v) IN x.kind = "number" /\ x.n > 0

(* ------------------------------ inputs --------------------------------- *)

Algebra == <<"A", "l", "g", "e", "b", "r", "a">>

Types == {"Course", "Product"}

Fields == {"title", "price"}

SampleStrings == {<<>>, Algebra}

SampleNumbers == {-5, 0, 10}

JSValues ==
  {Str(s) : s \in SampleStrings} \cup {Num(i) : i \in SampleNumbers}
    \cup {NaN, Undefined, Null}

\* an instance: its class name and the value read by obj[prop]
Objects == [constructor : Types, props : [Fields -> JSValues]]

\* what the user may have typed in the two inputs of the form
FormTitles == {<<>>, Algebra, <<"0">>}

FormPrices ==
  {<<>>, <<"1", "0">>, <<"-", "1">>, <<"a">>, <<"0">>, <<"7">>, <<"+", "5">>}

(* ------------------------ registeredValidators ------------------------- *)

\* `...registeredValidators[name]`: the own properties of the class's
\* configuration in insertion order, none when it is undefined
SpreadConfig(rv, name) == IF name \in DOMAIN rv THEN rv[name] ELSE <<>>

\* `{...config, [propName]: validators}`: an existing key keeps its place
\* and takes the new value, a new key goes last
WithProp(config, propName, validators) ==
  IF \E i \in 1..Len(config) : config[i].prop = propName
  THEN [i \in 1..Len(config) |->
          IF config[i].prop = propName
          THEN [prop |-> propName, validators |-> validators]
          ELSE config[i]]
  ELSE Append(config, [prop |-> propName, validators |-> validators])

\* the class's earlier configuration is not spread into the new one
Required_NoSpread(rv, target, propName) ==
  (target :> <<[prop |-> propName, validators |-> <<"Required">>]>>) @@ rv

Required(rv, target, propName) ==
  (target :> WithProp(SpreadConfig(rv, target), propName, <<"Required">>)) @@ rv

\* the class's earlier configuration is not spread into the new one
PositiveNumber_NoSpread(rv, target, propName) ==
  (target :> <<[prop |-> propName, validators |-> <<"Positive">>]>>) @@ rv

PositiveNumber(rv, target, propName) ==
  (target :> WithProp(SpreadConfig(rv, target), propName, <<"Positive">>)) @@ rv

\* `isValid = !!obj[prop]`: the result so far is forgotten
ValidatorCase_DropsAccumulator(validator, value, isValid) ==
  CASE validator = "Required" -> ToBoolean(value)
    [] validator = "Positive" -> GreaterThanZero(value)
    [] OTHER -> isValid

\* `obj[prop] != null` in place of `!!obj[prop]`
ValidatorCase_RequiredDefinedOnly(validator, value, isValid) ==
  CASE validator = "Required" -> isValid /\ value.kind \notin {"undefined", "null"}
    [] validator = "Positive" -> isValid /\ GreaterThanZero(value)
    [] OTHER -> isValid

\* `obj[prop] >= 0` in place of `obj[prop] > 0`
ValidatorCase_PositiveOrZero(validator, value, isValid) ==
  CASE validator = "Required" -> isValid /\ ToBoolean(value)
    [] validator = "Positive" ->
         isValid /\ ToNumber(value).kind = "number" /\ ToNumber(value).n >= 0
    [] OTHER -> isValid

\* one pass of the switch statement
ValidatorCase(validator, value, isValid) ==
  CASE validator = "Required" -> isValid /\ ToBoolean(value)
    [] validator = "Positive" -> isValid /\ GreaterThanZero(value)
    [] OTHER -> isValid

RECURSIVE ForValidators(_, _, _)
ForValidators(validators, value, isValid) ==
  IF validators = <<>> THEN isValid
  ELSE ForValidators(Tail(validators), value,
                     ValidatorCase(Head(validators), value, isValid))

RECURSIVE ForProps(_, _, _)
ForProps(config, obj, isValid) ==
  IF config = <<>> THEN isValid
  ELSE ForProps(Tail(config), obj,
                ForValidators(Head(config).validators,
                              obj.props[Head(config).prop], isValid))

\* a class without configuration is refused
validate_RejectsUnconfigured(rv, obj) ==
  IF obj.constructor \notin DOMAIN rv THEN FALSE
  ELSE ForProps(rv[obj.constructor], obj, TRUE)

validate(rv, obj) ==
  IF obj.constructor \notin DOMAIN rv THEN TRUE
  ELSE ForProps(rv[obj.constructor], obj, TRUE)

\* new Course(t, p)
Course(t, p) ==
  [constructor |-> "Course", props |-> [f \in Fields |-> IF f = "title" THEN t ELSE p]]

(* ------------------------------ actions -------------------------------- *)

NoCall == [made |-> FALSE]

Returned(obj, result) == [made |-> TRUE, obj |-> obj, result |-> result]

Reg(decorator, target, propName) ==
  [decorator |-> decorator, target |-> target, propName |-> propName]

Init ==
  /\ registeredValidators = [t \in {} |-> <<>>]
  /\ regLog = <<>>
  /\ call = NoCall
  /\ console = <<>>
  /\ alerts = 0

\* @Required on property propName of class target
ApplyRequired(target, propName) ==
  /\ Len(regLog) < MaxRegs
  /\ registeredValidators' = Required(registeredValidators, target, propName)
  /\ regLog' = Append(regLog, Reg("Required", target, propName))
  /\ UNCHANGED <<call, console, alerts>>

\* @PositiveNumber on property propName of class target
ApplyPositiveNumber(target, propName) ==
  /\ Len(regLog) < MaxRegs
  /\ registeredValidators' = PositiveNumber(registeredValidators, target, propName)
  /\ regLog' = Append(regLog, Reg("PositiveNumber", target, propName))
  /\ UNCHANGED <<call, console, alerts>>

\* a call validate(obj); call holds the argument and the returned value
CallValidate(obj) ==
  /\ call' = Returned(obj, validate(registeredValidators, obj))
  /\ UNCHANGED <<registeredValidators, regLog, console, alerts>>

Next ==
  \/ \E t \in Types, f \in Fields : ApplyRequired(t, f)
  \/ \E t \in Types, f \in Fields : ApplyPositiveNumber(t, f)
  \/ \E obj \in Objects : CallValidate(obj)

\* any classes decorated in any order, validate called at any time
Spec == Init /\ [][Next]_vars

(* ------------------------- the page's own run --------------------------- *)

\* the decorators of class Course, in declaration order
CourseDecl ==
  <<Reg("Required", "Course", "title"), Reg("PositiveNumber", "Course", "price")>>

\* @Required title: string
DeclareTitle ==
  /\ regLog = <<>>
  /\ ApplyRequired("Course", "title")

\* @PositiveNumber price: number
DeclarePrice ==
  /\ regLog = SubSeq(CourseDecl, 1, 1)
  /\ ApplyPositiveNumber("Course", "price")

\* the `return` after the alert is missing
SubmitListener_NoReturn(titleValue, priceValue) ==
  /\ regLog = CourseDecl
  /\ Len(console) + alerts < MaxSubmits
  /\ LET title == Str(titleValue)
         price == ToNumber(Str(priceValue))
         createdCourse == Course(title, price)
         ok == validate(registeredValidators, createdCourse)
     IN /\ call' = Returned(createdCourse, ok)
        /\ alerts' = IF ~ok THEN alerts + 1 ELSE alerts
        /\ console' = Append(console, createdCourse)
  /\ UNCHANGED <<registeredValidators, regLog>>

\* the submit listener, run with the two inputs' current values
SubmitListener(titleValue, priceValue) ==
  /\ regLog = CourseDecl
  /\ Len(console) + alerts < MaxSubmits
  /\ LET title == Str(titleValue)
         price == ToNumber(Str(priceValue))
         createdCourse == Course(title, price)
         ok == validate(registeredValidators, createdCourse)
     IN /\ call' = Returned(createdCourse, ok)
        /\ IF ~ok
           THEN /\ alerts' = alerts + 1
                /\ console' = console
           ELSE /\ console' = Append(console, createdCourse)
                /\ alerts' = alerts
  /\ UNCHANGED <<registeredValidators, regLog>>

NextApp ==
  \/ DeclareTitle
  \/ DeclarePrice
  \/ \E t \in FormTitles, p \in FormPrices : SubmitListener(t, p)

\* the script as written: class Course is defined, then the form is submitted
SpecApp == Init /\ [][NextApp]_vars

(* ------------------------- vocabulary of the claims --------------------- *)

\* the list stored for field f of type t, empty when nothing is stored
RulesOf(rv, t, f) ==
  IF t \in DOMAIN rv /\ \E i \in 1..Len(rv[t]) : rv[t][i].prop = f
  THEN rv[t][CHOOSE i \in 1..Len(rv[t]) : rv[t][i].prop = f].validators
  ELSE <<>>

HasField(rv, t, f) ==
  t \in DOMAIN rv /\ \E i \in 1..Len(rv[t]) : rv[t][i].prop = f

\* the rule kind a decorator stands for, as the table spells it
RuleOf(decorator) == IF decorator = "Required" THEN "Required" ELSE "Positive"

\* the predicate of a rule kind
Holds(rule, value) ==
  IF rule = "Required" THEN ToBoolean(value) ELSE GreaterThanZero(value)

Registered(decorator, t, f) ==
  \E i \in 1..Len(regLog) : regLog[i] = Reg(decorator, t, f)

\* every registration made for type t is this one, and there is one
OnlyRegistered(decorator, t, f) ==
  /\ Registered(decorator, t, f)
  /\ \A i \in 1..Len(regLog) :
       regLog[i].target = t => regLog[i] = Reg(decorator, t, f)

\* a step in which a decorator ran, and the registration it made
Registering == regLog' /= regLog

LastReg == regLog'[Len(regLog')]

\* a step in which validate returned
Validating == call' /= call

ApplyReg(rv, reg) ==
  IF reg.decorator = "Required"
  THEN Required(rv, reg.target, reg.propName)
  ELSE PositiveNumber(rv, reg.target, reg.propName)

RECURSIVE Replay(_)
Replay(log) ==
  IF log = <<>> THEN [t \in {} |-> <<>>]
  ELSE ApplyReg(Replay(SubSeq(log, 1, Len(log) - 1)), log[Len(log)])

(* -------------------------------- claims -------------------------------- *)

\* C1: a registration appends: after registering rule r for (type, field)
\* the stored list is the list held before followed by r.
C1_RegisterAppends ==
  [][Registering =>
       RulesOf(registeredValidators', LastReg.target, LastReg.propName)
         = Append(RulesOf(registeredValidators, LastReg.target, LastReg.propName),
                  RuleOf(LastReg.decorator))]_vars

\* C2: registering a rule for field A of type T leaves the list of every
\* other field of T, and the table of every other type, as it was.
C2_OtherFieldsUntouched ==
  [][Registering =>
       \A t \in Types, f \in Fields :
         (t /= LastReg.target \/ f /= LastReg.propName) =>
           /\ HasField(registeredValidators', t, f) = HasField(registeredValidators, t, f)
           /\ RulesOf(registeredValidators', t, f) = RulesOf(registeredValidators, t, f)
           /\ (t /= LastReg.target =>
                 /\ (t \in DOMAIN registeredValidators') = (t \in DOMAIN registeredValidators)
                 /\ (t \in DOMAIN registeredValidators =>
                       registeredValidators'[t] = registeredValidators[t]))]_vars

\* a second field of a type was registered after a first one, and both are stored
C2_Witness ==
  /\ Len(regLog) = 2
  /\ regLog[1].target = regLog[2].target
  /\ regLog[1].propName /= regLog[2].propName
  /\ \A i \in 1..2 :
       RulesOf(registeredValidators, regLog[i].target, regLog[i].propName)
         = <<RuleOf(regLog[i].decorator)>>

\* C3: when Required and PositiveNumber have both been registered on a
\* field of a type, in either order, validate returns false whenever either
\* predicate fails on the field's value (-5 fails PositiveNumber).
C3_BothRulesConjoined ==
  [][Validating =>
       \A f \in Fields :
         ( /\ Registered("Required", call'.obj.constructor, f)
           /\ Registered("PositiveNumber", call'.obj.constructor, f)
           /\ \/ ~ToBoolean(call'.obj.props[f])
              \/ ~GreaterThanZero(call'.obj.props[f]) )
         => call'.result = FALSE]_vars

\* C4: for a type with a stored configuration validate returns a boolean,
\* true exactly when every stored rule of every stored field holds on the
\* instance's value of that field.
C4_ConjunctionOfStoredRules ==
  [][Validating =>
       (call'.obj.constructor \in DOMAIN registeredValidators =>
          LET config == registeredValidators[call'.obj.constructor]
          IN /\ call'.result \in BOOLEAN
             /\ call'.result =
                  (\A i \in 1..Len(config) :
                     \A j \in 1..Len(config[i].validators) :
                       Holds(config[i].validators[j],
                             call'.obj.props[config[i].prop])))]_vars

\* two fields are stored, the first one's rule fails, the second one's holds,
\* and validate returned false
C4_Witness ==
  /\ call.made
  /\ call.obj.constructor \in DOMAIN registeredValidators
  /\ LET config == registeredValidators[call.obj.constructor]
     IN /\ Len(config) = 2
        /\ ~Holds(config[1].validators[1], call.obj.props[config[1].prop])
        /\ Holds(config[2].validators[1], call.obj.props[config[2].prop])
        /\ call.result = validate(registeredValidators, call.obj)
        /\ call.result = FALSE

\* C5: for a type under whose name no rule was registered validate returns
\* true, whatever the instance holds.
C5_UnconfiguredTypeIsValid ==
  [][Validating =>
       ((\A i \in 1..Len(regLog) : regLog[i].target /= call'.obj.constructor)
          => call'.result = TRUE)]_vars

\* another type has rules, this one has none, and an instance with an empty
\* title and a negative price was accepted
C5_Witness ==
  /\ call.made
  /\ regLog /= <<>>
  /\ \A i \in 1..Len(regLog) : regLog[i].target /= call.obj.constructor
  /\ call.obj.props["title"] = Str(<<>>)
  /\ call.obj.props["price"] = Num(-5)
  /\ call.result = TRUE

\* C6: for a type whose only registered rule is Required on field f,
\* validate returns false when the value of f is the empty string, zero,
\* undefined or null, and true when it is a non-empty string or a non-zero
\* number.
C6_RequiredAlone ==
  [][Validating =>
       \A f \in Fields :
         OnlyRegistered("Required", call'.obj.constructor, f) =>
           LET v == call'.obj.props[f]
           IN /\ v \in {Str(<<>>), Num(0), Undefined, Null} => call'.result = FALSE
              /\ (v.kind = "string" /\ v.chars /= <<>>) => call'.result = TRUE
              /\ (v.kind = "number" /\ v.n /= 0) => call'.result = TRUE]_vars

\* Required alone on the title; zero was rejected for it
C6_Witness ==
  /\ call.made
  /\ OnlyRegistered("Required", call.obj.constructor, "title")
  /\ call.obj.props["title"] = Num(0)
  /\ call.result = FALSE

\* C7: for a type whose only registered rule is PositiveNumber on field f,
\* validate returns false for every number <= 0 and true for every number > 0.
C7_PositiveAlone ==
  [][Validating =>
       \A f \in Fields :
         OnlyRegistered("PositiveNumber", call'.obj.constructor, f) =>
           LET v == call'.obj.props[f]
           IN /\ (v.kind = "number" /\ v.n <= 0) => call'.result = FALSE
              /\ (v.kind = "number" /\ v.n > 0) => call'.result = TRUE]_vars

\* PositiveNumber alone on the price; zero was rejected for it
C7_Witness ==
  /\ call.made
  /\ OnlyRegistered("PositiveNumber", call.obj.constructor, "price")
  /\ call.obj.props["price"] = Num(0)
  /\ call.result = FALSE

\* C8: with the rules class Course declares, validate returns true for
\* {Algebra, 10}, false for {"", 10}, {Algebra, -1} and {"", -1}, and in
\* general true exactly when the title is non-empty and the price is > 0.
C8_CourseScenario ==
  (regLog = CourseDecl /\ call.made) =>
    /\ call.obj = Course(Str(Algebra), Num(10)) => call.result = TRUE
    /\ call.obj = Course(Str(<<>>), Num(10)) => call.result = FALSE
    /\ call.obj = Course(Str(Algebra), Num(-1)) => call.result = FALSE
    /\ call.obj = Course(Str(<<>>), Num(-1)) => call.result = FALSE
    /\ call.result =
         ( /\ call.obj.props["title"].chars /= <<>>
           /\ call.obj.props["price"].kind = "number"
           /\ call.obj.props["price"].n > 0 )

\* {Algebra, 10} was accepted and then {"", 10} was refused
C8_Witness ==
  /\ regLog = CourseDecl
  /\ console = <<Course(Str(Algebra), Num(10))>>
  /\ call = Returned(Course(Str(<<>>), Num(10)), FALSE)

\* C9: a submission whose course fails validate raises one alert and logs
\* nothing; one whose course passes is logged and raises no alert; whatever
\* was submitted before, only courses that pass validate are ever logged.
C9_SubmitOutcome ==
  [][(console' /= console \/ alerts' /= alerts) =>
       LET ok == validate(registeredValidators', call'.obj)
       IN /\ call'.made
          /\ call'.result = ok
          /\ ~ok => (alerts' = alerts + 1 /\ console' = console)
          /\ ok => (console' = Append(console, call'.obj) /\ alerts' = alerts)
          /\ \A i \in 1..Len(console') :
               validate(registeredValidators', console'[i])]_vars

\* a refused submission followed by an accepted one
C9_Witness ==
  /\ alerts = 1
  /\ Len(console) = 1
  /\ call.made
  /\ call.result = TRUE
  /\ console[1] = call.obj

\* C10: two orders of the same registrations evaluate every instance alike.
C10_OrderIrrelevant ==
  \A perm \in Permutations(1..Len(regLog)) :
    \A obj \in Objects :
      validate(Replay([i \in 1..Len(regLog) |-> regLog[perm[i]]]), obj)
        = validate(registeredValidators, obj)

====
